---- MODULE Spec2Model ----
(***************************************************************************)
(* Model of libgodot-test (src/src/main.cpp, src/src/platform.h): the     *)
(* command-line handling of main, the engine instance lifecycle, the      *)
(* run/stop state machine (start_project / stop_project) and the          *)
(* callbacks that the platform event loop delivers.                       *)
(*                                                                         *)
(* Every call that leaves main.cpp (libgodot_*, platform_*, std::cout,     *)
(* std::cerr) is appended to the history variable log together with the   *)
(* handle it was given, so that properties about which calls are made,    *)
(* with what and in which order are state predicates over log.            *)
(***************************************************************************)
EXTENDS Integers, Sequences, FiniteSets, TLC

(* ---------------------------- bounds ---------------------------------- *)
\* longest command line (number of arguments after argv[0]) that Init draws
MaxArgs == 2
\* number of callbacks the event loop delivers before only a terminating
\* frame is still taken
MaxEvents == 3

\* longest command line the path resolution is checked on
MaxArgLen == 3

(* --------------------------- constants -------------------------------- *)
EXIT_SUCCESS == 0
EXIT_FAILURE == 1
\* exit_code while the process has not returned from main
Running == 0 - 1

NULL == "nullptr"
GodotInstance == "godot_instance"
PlatformCtx == "platform_ctx"
ProgramName == "godot_test"
\* status_text handed to platform_set_run_state when status.empty()
NullText == << >>
NoHandle == "-"
UsageText == <<"Usage: godot_test <project_path_or_pck> [--path <project_path>|--main-pack <pck>]">>

\* argument strings the command line is built from ("" is an empty argument)
Tokens == {"--path", "--main-pack", "proj", ""}

VARIABLES
    argv,               \* argv[1..argc-1]; argv[0] is ProgramName
    pc,                 \* position of main
    exit_code,          \* value returned by main, Running before that
    g_godot_instance,
    g_should_quit,
    g_platform,
    g_project_path,
    g_project_running,
    log,                \* calls made so far, oldest first
    nev                 \* callbacks delivered by platform_run so far

vars == <<argv, pc, exit_code, g_godot_instance, g_should_quit, g_platform,
          g_project_path, g_project_running, log, nev>>

(* ---------------------------- the log --------------------------------- *)
\* one entry: the function called, the handle passed, a boolean (argument
\* or return value) and a text (argument), as a sequence of pieces
Call(fn, h, b, t) == [call |-> fn, handle |-> h, flag |-> b, text |-> t]

Cout(t) == Call("cout", NoHandle, FALSE, t)
Cerr(t) == Call("cerr", NoHandle, FALSE, t)

\* the globals of main.cpp and the log, as one record
Globals ==
    [g_godot_instance |-> g_godot_instance, g_should_quit |-> g_should_quit,
     g_platform |-> g_platform, g_project_path |-> g_project_path,
     g_project_running |-> g_project_running, log |-> log]

SetGlobals(s) ==
    /\ g_godot_instance' = s.g_godot_instance
    /\ g_should_quit' = s.g_should_quit
    /\ g_platform' = s.g_platform
    /\ g_project_path' = s.g_project_path
    /\ g_project_running' = s.g_project_running
    /\ log' = s.log

Logged(s, e) == [s EXCEPT !.log = Append(@, e)]

(* ----------------------- resolve_project_path ------------------------- *)
IsFlag(arg) == arg = "--path" \/ arg = "--main-pack"

\* argv[i] of the C program: av holds argv[1..argc-1]
Arg(av, i) == IF i = 0 THEN ProgramName ELSE av[i]

\* the for loop of resolve_project_path, from index i on
RECURSIVE resolve_loop(_, _, _)
resolve_loop(i, argc, av) ==
    IF i < argc - 1
    THEN IF IsFlag(Arg(av, i)) /\ (i + 1) < argc
         THEN [found |-> TRUE, value |-> Arg(av, i + 1)]
         ELSE resolve_loop(i + 1, argc, av)
    ELSE [found |-> FALSE, value |-> ""]

\* as resolve_project_path, but a leading positional argument wins over a flag
resolve_project_path_positional_first(argc, av) ==
    LET r == resolve_loop(1, argc, av)
    IN  IF argc > 1 /\ ~IsFlag(Arg(av, 1)) THEN Arg(av, 1)
        ELSE IF r.found THEN r.value
        ELSE ""

\* as resolve_project_path, without the test that the first argument is no flag
resolve_project_path_any_first(argc, av) ==
    LET r == resolve_loop(1, argc, av)
    IN  IF r.found THEN r.value
        ELSE IF argc > 1 THEN Arg(av, 1)
        ELSE ""

resolve_project_path(argc, av) ==
    LET r == resolve_loop(1, argc, av)
    IN  IF r.found THEN r.value
        ELSE IF argc > 1 /\ ~IsFlag(Arg(av, 1)) THEN Arg(av, 1)
        ELSE ""

\* the indices of argv that the for loop reads, from index i on
RECURSIVE resolve_loop_reads(_, _, _)
resolve_loop_reads(i, argc, av) ==
    IF i < argc - 1
    THEN {i} \cup (IF IsFlag(Arg(av, i)) /\ (i + 1) < argc
                   THEN {i + 1}
                   ELSE resolve_loop_reads(i + 1, argc, av))
    ELSE {}

\* the indices of argv that resolve_project_path reads
resolve_reads(argc, av) ==
    resolve_loop_reads(1, argc, av)
    \cup (IF ~resolve_loop(1, argc, av).found /\ argc > 1 THEN {1} ELSE {})

(* ------------------------ run/stop state machine ---------------------- *)
\* std::string::empty() of a status built from the pieces t
StatusEmpty(t) == \A i \in 1..Len(t) : t[i] = ""

update_run_state(s, running, status) ==
    LET s1 == [s EXCEPT !.g_project_running = running]
    IN  IF s1.g_platform /= NULL
        THEN Logged(s1, Call("platform_set_run_state", s1.g_platform, running,
                             IF StatusEmpty(status) THEN NullText ELSE status))
        ELSE s1

\* as stop_project, but the project path is cleared with the unload
stop_project_clears_path(s, reason) ==
    IF s.g_godot_instance = NULL \/ ~s.g_project_running
    THEN s
    ELSE LET log_reason == IF reason /= NULL THEN reason ELSE "Stopped"
             s1 == Logged(s, Cout(<<"Unloading project (", log_reason, ")">>))
             s2 == [Logged(s1, Call("libgodot_unload_project",
                                    s1.g_godot_instance, FALSE, << >>))
                      EXCEPT !.g_project_path = ""]
             status == IF reason /= NULL
                       THEN <<"Project stopped: ", reason>>
                       ELSE <<"Project stopped">>
         IN  update_run_state(s2, FALSE, status)

\* as stop_project, without the test of g_project_running
stop_project_unchecked(s, reason) ==
    IF s.g_godot_instance = NULL
    THEN s
    ELSE LET log_reason == IF reason /= NULL THEN reason ELSE "Stopped"
             s1 == Logged(s, Cout(<<"Unloading project (", log_reason, ")">>))
             s2 == Logged(s1, Call("libgodot_unload_project",
                                   s1.g_godot_instance, FALSE, << >>))
             status == IF reason /= NULL
                       THEN <<"Project stopped: ", reason>>
                       ELSE <<"Project stopped">>
         IN  update_run_state(s2, FALSE, status)

\* as stop_project, but the run state stays running after the unload
stop_project_keeps_running(s, reason) ==
    IF s.g_godot_instance = NULL \/ ~s.g_project_running
    THEN s
    ELSE LET log_reason == IF reason /= NULL THEN reason ELSE "Stopped"
             s1 == Logged(s, Cout(<<"Unloading project (", log_reason, ")">>))
             s2 == Logged(s1, Call("libgodot_unload_project",
                                   s1.g_godot_instance, FALSE, << >>))
             status == IF reason /= NULL
                       THEN <<"Project stopped: ", reason>>
                       ELSE <<"Project stopped">>
         IN  update_run_state(s2, TRUE, status)

\* reason is NULL for the default argument (reason = nullptr)
stop_project(s, reason) ==
    IF s.g_godot_instance = NULL \/ ~s.g_project_running
    THEN s
    ELSE LET log_reason == IF reason /= NULL THEN reason ELSE "Stopped"
             s1 == Logged(s, Cout(<<"Unloading project (", log_reason, ")">>))
             s2 == Logged(s1, Call("libgodot_unload_project",
                                   s1.g_godot_instance, FALSE, << >>))
             status == IF reason /= NULL
                       THEN <<"Project stopped: ", reason>>
                       ELSE <<"Project stopped">>
         IN  update_run_state(s2, FALSE, status)

\* as start_project, but the platform is told running=true before the load
start_project_announces_early(s, load_ok) ==
    IF s.g_godot_instance = NULL
    THEN [Logged(s, Cerr(<<"Cannot start project: Godot instance is null">>))
            EXCEPT !.g_should_quit = TRUE]
    ELSE IF s.g_project_running
    THEN Logged(s, Cout(<<"Project already running">>))
    ELSE IF s.g_project_path = ""
    THEN Logged(s, Cerr(<<"Cannot start project: no path provided">>))
    ELSE LET s1 == Logged(s, Cout(<<"Loading project: ", s.g_project_path>>))
             s2 == update_run_state(s1, TRUE, <<"Loading project...">>)
             s3 == Logged(s2, Call("libgodot_load_project", s2.g_godot_instance,
                                   load_ok, <<s2.g_project_path>>))
         IN  IF ~load_ok
             THEN update_run_state(
                      Logged(s3, Cerr(<<"Failed to load Godot project: ",
                                        s3.g_project_path>>)),
                      FALSE, <<"Failed to load project">>)
             ELSE update_run_state(s3, TRUE,
                                   <<"Running project: ", s3.g_project_path>>)

\* as start_project, without the test of g_project_running
start_project_reloads(s, load_ok) ==
    IF s.g_godot_instance = NULL
    THEN [Logged(s, Cerr(<<"Cannot start project: Godot instance is null">>))
            EXCEPT !.g_should_quit = TRUE]
    ELSE IF s.g_project_path = ""
    THEN Logged(s, Cerr(<<"Cannot start project: no path provided">>))
    ELSE LET s1 == Logged(s, Cout(<<"Loading project: ", s.g_project_path>>))
             s2 == update_run_state(s1, FALSE, <<"Loading project...">>)
             s3 == Logged(s2, Call("libgodot_load_project", s2.g_godot_instance,
                                   load_ok, <<s2.g_project_path>>))
         IN  IF ~load_ok
             THEN update_run_state(
                      Logged(s3, Cerr(<<"Failed to load Godot project: ",
                                        s3.g_project_path>>)),
                      FALSE, <<"Failed to load project">>)
             ELSE update_run_state(s3, TRUE,
                                   <<"Running project: ", s3.g_project_path>>)

\* as start_project, but a failed load also sets the quit flag
start_project_quit_on_failure(s, load_ok) ==
    IF s.g_godot_instance = NULL
    THEN [Logged(s, Cerr(<<"Cannot start project: Godot instance is null">>))
            EXCEPT !.g_should_quit = TRUE]
    ELSE IF s.g_project_running
    THEN Logged(s, Cout(<<"Project already running">>))
    ELSE IF s.g_project_path = ""
    THEN Logged(s, Cerr(<<"Cannot start project: no path provided">>))
    ELSE LET s1 == Logged(s, Cout(<<"Loading project: ", s.g_project_path>>))
             s2 == update_run_state(s1, FALSE, <<"Loading project...">>)
             s3 == Logged(s2, Call("libgodot_load_project", s2.g_godot_instance,
                                   load_ok, <<s2.g_project_path>>))
         IN  IF ~load_ok
             THEN [update_run_state(
                      Logged(s3, Cerr(<<"Failed to load Godot project: ",
                                        s3.g_project_path>>)),
                      FALSE, <<"Failed to load project">>)
                     EXCEPT !.g_should_quit = TRUE]
             ELSE update_run_state(s3, TRUE,
                                   <<"Running project: ", s3.g_project_path>>)

\* as start_project, but a failed load is tried a second time
start_project_retries(s, load_ok) ==
    IF s.g_godot_instance = NULL
    THEN [Logged(s, Cerr(<<"Cannot start project: Godot instance is null">>))
            EXCEPT !.g_should_quit = TRUE]
    ELSE IF s.g_project_running
    THEN Logged(s, Cout(<<"Project already running">>))
    ELSE IF s.g_project_path = ""
    THEN Logged(s, Cerr(<<"Cannot start project: no path provided">>))
    ELSE LET s1 == Logged(s, Cout(<<"Loading project: ", s.g_project_path>>))
             s2 == update_run_state(s1, FALSE, <<"Loading project...">>)
             s3 == Logged(s2, Call("libgodot_load_project", s2.g_godot_instance,
                                   load_ok, <<s2.g_project_path>>))
             s4 == IF load_ok THEN s3
                   ELSE Logged(s3, Call("libgodot_load_project", s3.g_godot_instance,
                                        load_ok, <<s3.g_project_path>>))
         IN  IF ~load_ok
             THEN update_run_state(
                      Logged(s4, Cerr(<<"Failed to load Godot project: ",
                                        s4.g_project_path>>)),
                      FALSE, <<"Failed to load project">>)
             ELSE update_run_state(s4, TRUE,
                                   <<"Running project: ", s4.g_project_path>>)

\* load_ok is what libgodot_load_project returns if it is called
start_project(s, load_ok) ==
    IF s.g_godot_instance = NULL
    THEN [Logged(s, Cerr(<<"Cannot start project: Godot instance is null">>))
            EXCEPT !.g_should_quit = TRUE]
    ELSE IF s.g_project_running
    THEN Logged(s, Cout(<<"Project already running">>))
    ELSE IF s.g_project_path = ""
    THEN Logged(s, Cerr(<<"Cannot start project: no path provided">>))
    ELSE LET s1 == Logged(s, Cout(<<"Loading project: ", s.g_project_path>>))
             s2 == update_run_state(s1, FALSE, <<"Loading project...">>)
             s3 == Logged(s2, Call("libgodot_load_project", s2.g_godot_instance,
                                   load_ok, <<s2.g_project_path>>))
         IN  IF ~load_ok
             THEN update_run_state(
                      Logged(s3, Cerr(<<"Failed to load Godot project: ",
                                        s3.g_project_path>>)),
                      FALSE, <<"Failed to load project">>)
             ELSE update_run_state(s3, TRUE,
                                   <<"Running project: ", s3.g_project_path>>)

\* as on_frame, but the engine is iterated whether or not a project runs
on_frame_always_iterates(s, engine_quit) ==
    IF s.g_godot_instance = NULL
    THEN [state |-> s, ret |-> TRUE]
    ELSE LET s0 == Logged(s, Call("libgodot_iteration_godot_instance",
                                  s.g_godot_instance, engine_quit, << >>))
             s1 == IF engine_quit
                   THEN stop_project(s0, "Project requested exit")
                   ELSE s0
         IN  [state |-> s1, ret |-> s1.g_should_quit]

\* as on_frame, but returning what the engine's iteration returned
on_frame_returns_engine_quit(s, engine_quit) ==
    IF s.g_godot_instance = NULL
    THEN [state |-> s, ret |-> TRUE]
    ELSE IF s.g_project_running
    THEN LET s0 == Logged(s, Call("libgodot_iteration_godot_instance",
                                  s.g_godot_instance, engine_quit, << >>))
             s1 == IF engine_quit
                   THEN stop_project(s0, "Project requested exit")
                   ELSE s0
         IN  [state |-> s1, ret |-> engine_quit \/ s1.g_should_quit]
    ELSE [state |-> s, ret |-> s.g_should_quit]

\* as on_frame, but an engine-requested exit also sets the quit flag
on_frame_quits_on_engine_exit(s, engine_quit) ==
    IF s.g_godot_instance = NULL
    THEN [state |-> s, ret |-> TRUE]
    ELSE LET s1 == IF s.g_project_running
                   THEN LET s0 == Logged(s, Call("libgodot_iteration_godot_instance",
                                                 s.g_godot_instance, engine_quit, << >>))
                        IN  IF engine_quit
                            THEN [stop_project(s0, "Project requested exit")
                                    EXCEPT !.g_should_quit = TRUE]
                            ELSE s0
                   ELSE s
         IN  [state |-> s1, ret |-> s1.g_should_quit]

\* engine_quit is what libgodot_iteration_godot_instance returns if called;
\* the result is the state after the callback and its return value
on_frame(s, engine_quit) ==
    IF s.g_godot_instance = NULL
    THEN [state |-> s, ret |-> TRUE]
    ELSE LET s1 == IF s.g_project_running
                   THEN LET s0 == Logged(s, Call("libgodot_iteration_godot_instance",
                                                 s.g_godot_instance, engine_quit, << >>))
                        IN  IF engine_quit
                            THEN stop_project(s0, "Project requested exit")
                            ELSE s0
                   ELSE s
         IN  [state |-> s1, ret |-> s1.g_should_quit]

\* as on_quit, without setting the quit flag
on_quit_forgets_flag(s) ==
    stop_project(s, "Window close requested")

\* as on_quit, without the stop_project call
on_quit_no_stop(s) ==
    [s EXCEPT !.g_should_quit = TRUE]

on_quit(s) ==
    [stop_project(s, "Window close requested") EXCEPT !.g_should_quit = TRUE]

\* the lambda stored in callbacks.on_stop
on_stop(s) == stop_project(s, "Stopped by user")

(* ------------------------------- main --------------------------------- *)
ArgLists == UNION {[1..n -> Tokens] : n \in 0..MaxArgs}

Init ==
    /\ argv \in ArgLists
    /\ pc = "start"
    /\ exit_code = Running
    /\ g_godot_instance = NULL
    /\ g_should_quit = FALSE
    /\ g_platform = NULL
    /\ g_project_path = ""
    /\ g_project_running = FALSE
    /\ log = << >>
    /\ nev = 0

main_argc == Len(argv) + 1

\* main.cpp:156-163
MainParse ==
    /\ pc = "start"
    /\ LET project_path == resolve_project_path(main_argc, argv)
           s0 == Logged(Globals, Cout(<<"Starting...">>))
       IN  IF project_path = ""
           THEN /\ SetGlobals(Logged(s0, Cerr(UsageText)))
                /\ pc' = "exit"
                /\ exit_code' = EXIT_FAILURE
           ELSE /\ SetGlobals(s0)
                /\ pc' = "platform_init"
                /\ exit_code' = exit_code
    /\ UNCHANGED <<argv, nev>>

\* main.cpp:165-178; ok is whether platform_init returns a context
MainPlatformInit ==
    /\ pc = "platform_init"
    /\ \E ok \in BOOLEAN :
        LET project_path == resolve_project_path(main_argc, argv)
            platform == IF ok THEN PlatformCtx ELSE NULL
            s0 == Logged(Globals, Call("platform_init", platform, ok, <<"libgodot-test">>))
        IN  IF platform = NULL
            THEN /\ SetGlobals(Logged(s0, Cerr(<<"Failed to initialize platform">>)))
                 /\ pc' = "exit"
                 /\ exit_code' = EXIT_FAILURE
            ELSE LET s1 == IF project_path /= ""
                           THEN Logged(s0, Call("platform_set_window_title", platform, FALSE,
                                                <<"Embedded Godot Project from ", project_path>>))
                           ELSE s0
                 IN  /\ SetGlobals([s1 EXCEPT !.g_platform = platform,
                                              !.g_project_path = project_path])
                     /\ pc' = "create_instance"
                     /\ exit_code' = exit_code
    /\ UNCHANGED <<argv, nev>>

\* the arguments handed to the engine (main.cpp:186-206, non-Apple build)
godot_argv == <<ProgramName, "--display-driver", "external">> \o argv

\* as MainCreateInstance, but a null instance returns without platform_shutdown
MainCreateInstance_no_shutdown ==
    /\ pc = "create_instance"
    /\ \E inst \in {NULL, GodotInstance} :
        LET s0 == Logged(Globals, Call("platform_get_display_server_interface",
                                       g_platform, FALSE, << >>))
            s1 == Logged(s0, Call("libgodot_display_server_set_interface",
                                  NoHandle, FALSE, << >>))
            s2 == Logged(s1, Cout(<<"Creating Godot instance with args:">> \o godot_argv))
            s3 == [Logged(s2, Call("libgodot_create_godot_instance", inst,
                                   inst /= NULL, godot_argv))
                     EXCEPT !.g_godot_instance = inst]
        IN  IF s3.g_godot_instance = NULL
            THEN /\ SetGlobals(Logged(s3, Cerr(<<"Failed to create Godot instance">>)))
                 /\ pc' = "exit"
                 /\ exit_code' = EXIT_FAILURE
            ELSE /\ SetGlobals(s3)
                 /\ pc' = "auto_start"
                 /\ exit_code' = exit_code
    /\ UNCHANGED <<argv, nev>>

\* main.cpp:180-222; inst is what libgodot_create_godot_instance returns
MainCreateInstance ==
    /\ pc = "create_instance"
    /\ \E inst \in {NULL, GodotInstance} :
        LET s0 == Logged(Globals, Call("platform_get_display_server_interface",
                                       g_platform, FALSE, << >>))
            s1 == Logged(s0, Call("libgodot_display_server_set_interface",
                                  NoHandle, FALSE, << >>))
            s2 == Logged(s1, Cout(<<"Creating Godot instance with args:">> \o godot_argv))
            s3 == [Logged(s2, Call("libgodot_create_godot_instance", inst,
                                   inst /= NULL, godot_argv))
                     EXCEPT !.g_godot_instance = inst]
        IN  IF s3.g_godot_instance = NULL
            THEN /\ SetGlobals(Logged(Logged(s3, Cerr(<<"Failed to create Godot instance">>)),
                                      Call("platform_shutdown", g_platform, FALSE, << >>)))
                 /\ pc' = "exit"
                 /\ exit_code' = EXIT_FAILURE
            ELSE /\ SetGlobals(s3)
                 /\ pc' = "auto_start"
                 /\ exit_code' = exit_code
    /\ UNCHANGED <<argv, nev>>

\* as MainAutoStart, but the project is started before the instance is
\* handed to the platform
MainAutoStart_start_first ==
    /\ pc = "auto_start"
    /\ \E load_ok \in BOOLEAN :
        LET s0 == start_project(Globals, load_ok)
            s1 == Logged(s0, Call("platform_set_godot_instance",
                                  s0.g_godot_instance, FALSE, << >>))
            s2 == update_run_state(s1, s1.g_project_running,
                                   <<"Project ready: ", s1.g_project_path>>)
        IN  SetGlobals(Logged(Logged(s2, Cout(<<"Godot ready, entering main loop">>)),
                              Call("platform_run", s2.g_platform, FALSE, << >>)))
    /\ pc' = "loop"
    /\ UNCHANGED <<argv, exit_code, nev>>

\* main.cpp:224-241; load_ok is the result of the auto-start load
MainAutoStart ==
    /\ pc = "auto_start"
    /\ \E load_ok \in BOOLEAN :
        LET s0 == Logged(Globals, Call("platform_set_godot_instance",
                                       g_godot_instance, FALSE, << >>))
            s1 == update_run_state(s0, FALSE, <<"Project ready: ", s0.g_project_path>>)
            s2 == start_project(s1, load_ok)
        IN  SetGlobals(Logged(Logged(s2, Cout(<<"Godot ready, entering main loop">>)),
                              Call("platform_run", s2.g_platform, FALSE, << >>)))
    /\ pc' = "loop"
    /\ UNCHANGED <<argv, exit_code, nev>>

(* --------------------------- platform_run ----------------------------- *)
\* platform.h:18-23, 32-34: the event loop calls on_frame each frame and
\* ends when it returns true; the other callbacks arrive between frames
MayDeliver == pc = "loop" /\ nev < MaxEvents

PlatformFrame ==
    /\ pc = "loop"
    /\ nev < MaxEvents \/ g_should_quit
    /\ \E engine_quit \in BOOLEAN :
        LET r == on_frame(Logged(Globals, Call("on_frame", NoHandle, FALSE, << >>)),
                          engine_quit)
        IN  /\ SetGlobals(Logged(r.state, Call("on_frame returned", NoHandle, r.ret, << >>)))
            /\ pc' = IF r.ret THEN "cleanup" ELSE "loop"
    /\ nev' = nev + 1
    /\ UNCHANGED <<argv, exit_code>>

PlatformQuit ==
    /\ MayDeliver
    /\ SetGlobals(on_quit(Logged(Globals, Call("on_quit", NoHandle, FALSE, << >>))))
    /\ nev' = nev + 1
    /\ UNCHANGED <<argv, pc, exit_code>>

PlatformStart ==
    /\ MayDeliver
    /\ \E load_ok \in BOOLEAN :
        SetGlobals(start_project(Logged(Globals, Call("on_start", NoHandle, FALSE, << >>)),
                                 load_ok))
    /\ nev' = nev + 1
    /\ UNCHANGED <<argv, pc, exit_code>>

PlatformStop ==
    /\ MayDeliver
    /\ SetGlobals(on_stop(Logged(Globals, Call("on_stop", NoHandle, FALSE, << >>))))
    /\ nev' = nev + 1
    /\ UNCHANGED <<argv, pc, exit_code>>

\* as MainCleanup, but the project is stopped after the instance is destroyed
MainCleanup_destroy_first ==
    /\ pc = "cleanup"
    /\ LET s0 == Logged(Globals, Cout(<<"Main loop ended, shutting down">>))
           s1 == Logged(s0, Call("libgodot_destroy_godot_instance",
                                 s0.g_godot_instance, FALSE, << >>))
           s2 == [stop_project(s1, "Shutting down") EXCEPT !.g_godot_instance = NULL]
           s3 == [Logged(s2, Call("platform_shutdown", s2.g_platform, FALSE, << >>))
                    EXCEPT !.g_platform = NULL]
       IN  SetGlobals(Logged(s3, Cout(<<"Done">>)))
    /\ pc' = "exit"
    /\ exit_code' = EXIT_SUCCESS
    /\ UNCHANGED <<argv, nev>>

\* as MainCleanup, without the stop_project call
MainCleanup_no_stop ==
    /\ pc = "cleanup"
    /\ LET s0 == Logged(Globals, Cout(<<"Main loop ended, shutting down">>))
           s2 == [Logged(s0, Call("libgodot_destroy_godot_instance",
                                  s0.g_godot_instance, FALSE, << >>))
                    EXCEPT !.g_godot_instance = NULL]
           s3 == [Logged(s2, Call("platform_shutdown", s2.g_platform, FALSE, << >>))
                    EXCEPT !.g_platform = NULL]
       IN  SetGlobals(Logged(s3, Cout(<<"Done">>)))
    /\ pc' = "exit"
    /\ exit_code' = EXIT_SUCCESS
    /\ UNCHANGED <<argv, nev>>

\* main.cpp:244-255
MainCleanup ==
    /\ pc = "cleanup"
    /\ LET s0 == Logged(Globals, Cout(<<"Main loop ended, shutting down">>))
           s1 == stop_project(s0, "Shutting down")
           s2 == [Logged(s1, Call("libgodot_destroy_godot_instance",
                                  s1.g_godot_instance, FALSE, << >>))
                    EXCEPT !.g_godot_instance = NULL]
           s3 == [Logged(s2, Call("platform_shutdown", s2.g_platform, FALSE, << >>))
                    EXCEPT !.g_platform = NULL]
       IN  SetGlobals(Logged(s3, Cout(<<"Done">>)))
    /\ pc' = "exit"
    /\ exit_code' = EXIT_SUCCESS
    /\ UNCHANGED <<argv, nev>>

Next ==
    \/ MainParse
    \/ MainPlatformInit
    \/ MainCreateInstance
    \/ MainAutoStart
    \/ PlatformFrame
    \/ PlatformQuit
    \/ PlatformStart
    \/ PlatformStop
    \/ MainCleanup

Spec == Init /\ [][Next]_vars

\* the event loop keeps calling on_frame, and main goes on once
\* platform_run has returned
FairSpec == Spec /\ WF_vars(PlatformFrame) /\ WF_vars(MainCleanup)

\* main up to the point where the resolved path is stored, over longer
\* command lines
ResolveArgLists == UNION {[1..n -> Tokens] : n \in 0..MaxArgLen}

ResolveInit ==
    /\ argv \in ResolveArgLists
    /\ pc = "start"
    /\ exit_code = Running
    /\ g_godot_instance = NULL
    /\ g_should_quit = FALSE
    /\ g_platform = NULL
    /\ g_project_path = ""
    /\ g_project_running = FALSE
    /\ log = << >>
    /\ nev = 0

ResolveNext ==
    \/ MainParse
    \/ MainPlatformInit

ResolveSpec == ResolveInit /\ [][ResolveNext]_vars

TypeOK ==
    /\ pc \in {"start", "platform_init", "create_instance", "auto_start",
               "loop", "cleanup", "exit"}
    /\ exit_code \in {Running, EXIT_SUCCESS, EXIT_FAILURE}
    /\ g_godot_instance \in {NULL, GodotInstance}
    /\ g_platform \in {NULL, PlatformCtx}
    /\ g_should_quit \in BOOLEAN
    /\ g_project_running \in BOOLEAN
    /\ g_project_path \in Tokens

(* ------------------------ reading the log ----------------------------- *)
Indices(lg, fn) == {i \in 1..Len(lg) : lg[i].call = fn}
Count(lg, fn) == Cardinality(Indices(lg, fn))
Called(lg, fn) == Indices(lg, fn) /= {}

\* the engine calls that take the instance handle
InstanceCalls == {"libgodot_load_project", "libgodot_unload_project",
                  "libgodot_iteration_godot_instance",
                  "libgodot_destroy_godot_instance"}
EngineCalls == InstanceCalls \cup {"libgodot_create_godot_instance",
                                   "libgodot_display_server_set_interface"}
AnyEngineCall(lg) == \E i \in 1..Len(lg) : lg[i].call \in EngineCalls

UsagePrinted(lg) == \E i \in 1..Len(lg) : lg[i].call = "cerr" /\ lg[i].text = UsageText

\* the callbacks platform_run delivers leave a marker in the log
Markers == {"on_frame", "on_quit", "on_start", "on_stop"}
MarkerIndices(lg) == {i \in 1..Len(lg) : lg[i].call \in Markers}
\* index of the marker of the callback delivered last, 0 if none was
LastMarker(lg) ==
    IF MarkerIndices(lg) = {} THEN 0
    ELSE CHOOSE i \in MarkerIndices(lg) : \A j \in MarkerIndices(lg) : j <= i
\* the calls made by the callback delivered last (its marker included)
LastCallback(lg) ==
    IF LastMarker(lg) = 0 THEN << >> ELSE SubSeq(lg, LastMarker(lg), Len(lg))
FlaggedIn(lg, fn, b) == \E i \in 1..Len(lg) : lg[i].call = fn /\ lg[i].flag = b
\* the calls made by the step being taken
Suffix == SubSeq(log', Len(log) + 1, Len(log'))
StepIs(m) == Len(log') > Len(log) /\ log'[Len(log) + 1].call = m
QuitRequested(lg) == Called(lg, "on_quit")

(* ============================== claims ================================ *)

\* the command lines the usage error is about: no argument, a lone flag,
\* an empty argument, a flag whose value is empty
NoPathGiven ==
    \/ argv = << >>
    \/ Len(argv) = 1 /\ IsFlag(argv[1])
    \/ argv = <<"">>
    \/ Len(argv) = 2 /\ IsFlag(argv[1]) /\ argv[2] = ""

\* C1: when the command line gives no project path, main prints the usage
\* message and exits with EXIT_FAILURE, and neither platform_init nor any
\* libgodot_* call has been made.
C1_UsageError ==
    (NoPathGiven /\ pc /= "start") =>
        /\ pc = "exit"
        /\ exit_code = EXIT_FAILURE
        /\ exit_code /= 0
        /\ UsagePrinted(log)
        /\ ~Called(log, "platform_init")
        /\ ~AnyEngineCall(log)
        /\ g_platform = NULL /\ g_godot_instance = NULL

C1_Witness ==
    /\ Len(argv) = 1 /\ IsFlag(argv[1])
    /\ pc = "exit"
    /\ UsagePrinted(log)

\* the load attempted by main's auto-start (before platform_run) failed
StartupLoadFailed(lg) ==
    \E i \in Indices(lg, "libgodot_load_project") :
        /\ lg[i].flag = FALSE
        /\ \A j \in Indices(lg, "platform_run") : i < j
        /\ Called(lg, "platform_run")

\* C2: a failed platform_init, a null engine instance and a failed project
\* load at start-up each end the run with a nonzero exit code.
C2_FailuresExitNonzero ==
    (/\ pc = "exit"
     /\ \/ FlaggedIn(log, "platform_init", FALSE)
        \/ FlaggedIn(log, "libgodot_create_godot_instance", FALSE)
        \/ StartupLoadFailed(log))
    => exit_code /= EXIT_SUCCESS
\* C2 amended: a failed platform_init and a null engine instance each end
\* the run with EXIT_FAILURE; a failed load at start-up does not end it:
\* main enters the event loop with the project not running and the quit
\* flag clear, as after a mid-run load failure, and the run later ends with
\* EXIT_SUCCESS.
C2_FailureExits ==
    /\ FlaggedIn(log, "platform_init", FALSE) =>
          pc = "exit" /\ exit_code = EXIT_FAILURE /\ exit_code /= 0
    /\ FlaggedIn(log, "libgodot_create_godot_instance", FALSE) =>
          pc = "exit" /\ exit_code = EXIT_FAILURE /\ exit_code /= 0
    /\ StartupLoadFailed(log) =>
          /\ pc \in {"loop", "cleanup", "exit"}
          /\ pc = "exit" => exit_code = EXIT_SUCCESS
          /\ (pc = "loop" /\ LastMarker(log) = 0) =>
                /\ ~g_project_running
                /\ ~g_should_quit
                /\ g_godot_instance = GodotInstance

\* a run whose start-up load failed has ended
C2_Witness ==
    /\ pc = "exit"
    /\ StartupLoadFailed(log)
    /\ exit_code = EXIT_SUCCESS

(* ---- steps of the event loop, told by the calls they add to the log --- *)
\* the value the on_frame call of this step returned
FrameReturn == log'[Len(log')].flag
\* this step is on_start and its libgodot_load_project call returned false
FailedStartStep ==
    StepIs("on_start") /\ FlaggedIn(Suffix, "libgodot_load_project", FALSE)
\* the callback delivered last was an on_start whose load failed
AfterFailedStart(lg) ==
    /\ LastMarker(lg) /= 0
    /\ lg[LastMarker(lg)].call = "on_start"
    /\ FlaggedIn(LastCallback(lg), "libgodot_load_project", FALSE)
\* the run state the platform was told last
LastRunState(lg) ==
    LET I == Indices(lg, "platform_set_run_state")
    IN  lg[CHOOSE i \in I : \A j \in I : j <= i]

\* what C3 says of the on_start step whose load fails
IdleAfterFailedStart ==
    FailedStartStep =>
        /\ g_project_running' = FALSE
        /\ g_should_quit' = g_should_quit
        /\ g_godot_instance' = GodotInstance
        /\ ~Called(Suffix, "libgodot_destroy_godot_instance")
        /\ Called(Suffix, "platform_set_run_state")
        /\ LastRunState(Suffix).flag = FALSE
        /\ LastRunState(Suffix).handle = PlatformCtx
        /\ Count(Suffix, "libgodot_load_project") = 1
        /\ pc' = "loop"

\* C3 as stated: after a mid-run load failure the harness is idle and the
\* next on_frame returns false.
C3_NextFrameFalse ==
    [][/\ IdleAfterFailedStart
       /\ (StepIs("on_frame") /\ AfterFailedStart(log)) => FrameReturn = FALSE]_vars

\* C3 amended: after a mid-run load failure the project is not running, the
\* quit flag is unchanged, the instance is still held, the platform was told
\* running=false, load was attempted once, and the next on_frame returns
\* the unchanged quit flag: false unless a window close was requested before.
C3_IdleAfterFailedLoad ==
    [][/\ IdleAfterFailedStart
       /\ (StepIs("on_frame") /\ AfterFailedStart(log)) =>
             /\ FrameReturn = QuitRequested(log)
             /\ FrameReturn = g_should_quit
             /\ ~AnyEngineCall(Suffix)]_vars

\* a frame delivered right after a failed mid-run load has returned false
C3_Witness ==
    \E i \in Indices(log, "on_frame") :
        /\ AfterFailedStart(SubSeq(log, 1, i - 1))
        /\ log[Len(log)].call = "on_frame returned"
        /\ log[Len(log)].flag = FALSE
        /\ LastMarker(log) = i

\* C4 as stated: every on_frame call made while the instance exists calls
\* libgodot_iteration_godot_instance exactly once.
C4_IterateEveryFrame ==
    [][(StepIs("on_frame") /\ g_godot_instance /= NULL) =>
          Count(Suffix, "libgodot_iteration_godot_instance") = 1]_vars

\* C4 amended: an on_frame call made while the instance exists calls
\* libgodot_iteration_godot_instance exactly once when a project is running
\* and not at all when none is; never more than once.
C4_IterateOncePerRunningFrame ==
    [][(StepIs("on_frame") /\ g_godot_instance /= NULL) =>
          Count(Suffix, "libgodot_iteration_godot_instance")
              = IF g_project_running THEN 1 ELSE 0]_vars

\* a frame has iterated the engine and another frame has not
C4_Witness ==
    /\ Called(log, "libgodot_iteration_godot_instance")
    /\ \E i \in Indices(log, "on_frame") :
          /\ i < Len(log)
          /\ log[i + 1].call = "on_frame returned"

\* C5: while the instance exists on_frame returns exactly the quit flag, and
\* returns true only if on_quit was delivered earlier.
C5_QuitFlagOnly ==
    [][(StepIs("on_frame") /\ g_godot_instance /= NULL) =>
          /\ FrameReturn = g_should_quit
          /\ g_should_quit' = g_should_quit
          /\ FrameReturn => QuitRequested(log)
          /\ (pc' = "cleanup") = FrameReturn]_vars

\* a frame in which the engine asked to exit has returned false, and a frame
\* after a window close has returned true
C5_Witness ==
    /\ \E i \in Indices(log, "libgodot_iteration_godot_instance") :
          /\ log[i].flag = TRUE
          /\ \E j \in Indices(log, "on_frame returned") : j > i /\ log[j].flag = FALSE
    /\ QuitRequested(log)
    /\ log[Len(log)].call = "on_frame returned"
    /\ log[Len(log)].flag = TRUE
\* an entry earlier than i destroyed the instance
DestroyedBefore(lg, i) ==
    \E j \in Indices(lg, "libgodot_destroy_godot_instance") : j < i
\* an entry earlier than i created the instance
CreatedBefore(lg, i) ==
    \E j \in Indices(lg, "libgodot_create_godot_instance") :
        j < i /\ lg[j].handle = GodotInstance

\* C6: every engine call that takes the instance handle is made with a
\* non-null handle that was created and not yet destroyed, and
\* platform_set_run_state is only called with a non-null platform context.
C6_NonNullBeforeUse ==
    \A i \in 1..Len(log) :
        /\ log[i].call \in InstanceCalls =>
              /\ log[i].handle /= NULL
              /\ log[i].handle = GodotInstance
              /\ CreatedBefore(log, i)
              /\ ~DestroyedBefore(log, i)
        /\ log[i].call = "platform_set_run_state" =>
              /\ log[i].handle /= NULL
              /\ \E j \in Indices(log, "platform_init") : j < i /\ log[j].flag
              /\ \A j \in Indices(log, "platform_shutdown") : i < j

\* all four instance calls and platform_set_run_state have been made
C6_Witness ==
    /\ \A fn \in InstanceCalls : Called(log, fn)
    /\ Called(log, "platform_set_run_state")
    /\ pc = "exit"

\* successful loads minus unloads among the first n entries of lg
Balance(lg, n) ==
    Cardinality({i \in 1..n : lg[i].call = "libgodot_load_project" /\ lg[i].flag})
    - Cardinality({i \in 1..n : lg[i].call = "libgodot_unload_project"})

\* C7: on a normal run the instance is created once and destroyed once, a
\* project still running when the loop ends is unloaded before the destroy,
\* the destroy precedes platform_shutdown, no load, unload or iterate call
\* follows the destroy, and the process exits with EXIT_SUCCESS.
C7_LifecycleOrder ==
    /\ Count(log, "libgodot_create_godot_instance") <= 1
    /\ Count(log, "libgodot_destroy_godot_instance") <= 1
    /\ pc = "cleanup" => ~Called(log, "libgodot_destroy_godot_instance")
    /\ (Called(log, "libgodot_destroy_godot_instance") \/ (pc = "exit" /\ Called(log, "platform_run"))) =>
          /\ pc = "exit" /\ exit_code = EXIT_SUCCESS
          /\ Count(log, "libgodot_create_godot_instance") = 1
          /\ Count(log, "libgodot_destroy_godot_instance") = 1
          /\ \A d \in Indices(log, "libgodot_destroy_godot_instance") :
                /\ Balance(log, d) = 0
                /\ \A c \in Indices(log, "libgodot_create_godot_instance") : c < d
                /\ \A i \in 1..Len(log) :
                      (log[i].call \in InstanceCalls /\ i /= d) => i < d
                /\ Count(log, "platform_shutdown") = 1
                /\ \A k \in Indices(log, "platform_shutdown") : d < k
          /\ g_godot_instance = NULL /\ g_platform = NULL /\ ~g_project_running

\* a run has ended whose project was still running when the loop ended
C7_Witness ==
    /\ pc = "exit" /\ exit_code = EXIT_SUCCESS
    /\ \E u \in Indices(log, "libgodot_unload_project") :
          /\ u > LastMarker(log)
          /\ log[u - 1].text = <<"Unloading project (", "Shutting down", ")">>
          /\ log[u + 2].call = "libgodot_destroy_godot_instance"

\* C8: successful loads and unloads strictly alternate, starting with a
\* load; unload is only called when the latest load succeeded and was not
\* unloaded; the running flag is true exactly when a successful load has not
\* been followed by an unload.
C8_LoadUnloadBalance ==
    /\ \A n \in 0..Len(log) : Balance(log, n) \in {0, 1}
    /\ \A u \in Indices(log, "libgodot_unload_project") : Balance(log, u - 1) = 1
    /\ \A l \in Indices(log, "libgodot_load_project") : Balance(log, l - 1) = 0
    /\ g_project_running = (Balance(log, Len(log)) = 1)

\* a run with two loads and two unloads, the second one by the shutdown
\* that follows a window close
C8_Witness ==
    /\ pc = "exit"
    /\ QuitRequested(log)
    /\ Count(log, "libgodot_unload_project") = 2
    /\ \E u \in Indices(log, "libgodot_unload_project") : u > LastMarker(log)

\* C9: libgodot_iteration_godot_instance is only called while the running
\* flag is true, between a successful load and the following unload; a
\* frame of an idle harness makes no engine call.
C9_IterateOnlyWhileRunning ==
    [][/\ Called(Suffix, "libgodot_iteration_godot_instance") =>
             /\ g_project_running
             /\ StepIs("on_frame")
       /\ \A i \in Indices(log', "libgodot_iteration_godot_instance") :
             Balance(log', i) = 1
       /\ (StepIs("on_frame") /\ ~g_project_running) =>
             /\ ~AnyEngineCall(Suffix)
             /\ Len(Suffix) = 2]_vars

\* frames have run idle after a user stop, after a failed load and after an
\* engine-requested exit, and a frame has iterated the engine
C9_Witness ==
    /\ Called(log, "libgodot_iteration_godot_instance")
    /\ \E i \in Indices(log, "on_frame") :
          /\ i < Len(log)
          /\ log[i + 1].call = "on_frame returned"
          /\ \/ FlaggedIn(SubSeq(log, 1, i), "libgodot_iteration_godot_instance", TRUE)
             \/ Called(SubSeq(log, 1, i), "on_stop")

\* this step is a frame in which the engine's iteration returned true
EngineExitStep ==
    StepIs("on_frame") /\ FlaggedIn(Suffix, "libgodot_iteration_godot_instance", TRUE)
\* the callback delivered last was such a frame
AfterEngineExit(lg) ==
    /\ LastMarker(lg) /= 0
    /\ lg[LastMarker(lg)].call = "on_frame"
    /\ FlaggedIn(LastCallback(lg), "libgodot_iteration_godot_instance", TRUE)

\* C10: when the iteration returns true, on_frame unloads the project once,
\* sets the run state to not running with the status "Project stopped:
\* Project requested exit", leaves the quit flag alone and returns false
\* unless a window close was requested before; an on_start delivered next
\* loads the project again.
C10_EngineRequestedExit ==
    [][/\ EngineExitStep =>
             /\ Count(Suffix, "libgodot_unload_project") = 1
             /\ g_project_running /\ ~g_project_running'
             /\ LastRunState(Suffix).flag = FALSE
             /\ LastRunState(Suffix).text = <<"Project stopped: ", "Project requested exit">>
             /\ Count(Suffix, "platform_set_run_state") = 1
             /\ g_should_quit' = g_should_quit
             /\ FrameReturn = QuitRequested(log)
             /\ g_godot_instance' = GodotInstance
       /\ (StepIs("on_start") /\ AfterEngineExit(log)) =>
             /\ Count(Suffix, "libgodot_load_project") = 1
             /\ \A i \in Indices(Suffix, "libgodot_load_project") :
                   /\ Suffix[i].text = <<g_project_path>>
                   /\ g_project_running' = Suffix[i].flag]_vars

\* after an engine-requested exit whose frame returned false, on_start has
\* loaded the project again
C10_Witness ==
    /\ LastMarker(log) /= 0
    /\ log[LastMarker(log)].call = "on_start"
    /\ AfterEngineExit(SubSeq(log, 1, LastMarker(log) - 1))
    /\ log[LastMarker(log) - 1].call = "on_frame returned"
    /\ log[LastMarker(log) - 1].flag = FALSE
    /\ g_project_running
\* C11: a null instance from libgodot_create_godot_instance makes main call
\* platform_shutdown and return EXIT_FAILURE without start_project,
\* platform_run, load, unload, iterate or destroy; whenever platform_init
\* succeeded, platform_shutdown has been called exactly once at exit, and
\* never before.
C11_NullInstanceShutdown ==
    /\ FlaggedIn(log, "libgodot_create_godot_instance", FALSE) =>
          /\ pc = "exit" /\ exit_code = EXIT_FAILURE
          /\ Count(log, "platform_shutdown") = 1
          /\ log[Len(log)].call = "platform_shutdown"
          /\ log[Len(log)].handle = PlatformCtx
          /\ ~Called(log, "platform_run")
          /\ ~Called(log, "platform_set_godot_instance")
          /\ ~Called(log, "platform_set_run_state")
          /\ \A i \in 1..Len(log) : log[i].call \notin InstanceCalls
          /\ MarkerIndices(log) = {}
    /\ Count(log, "platform_shutdown") <= 1
    /\ (pc = "exit" /\ FlaggedIn(log, "platform_init", TRUE)) =>
          Count(log, "platform_shutdown") = 1
    /\ Called(log, "platform_shutdown") =>
          /\ pc = "exit"
          /\ FlaggedIn(log, "platform_init", TRUE)
          /\ \A k \in Indices(log, "platform_shutdown") : log[k].handle = PlatformCtx

\* main has returned after libgodot_create_godot_instance returned null
C11_Witness ==
    /\ pc = "exit"
    /\ FlaggedIn(log, "libgodot_create_godot_instance", FALSE)
    /\ Called(log, "platform_shutdown")

\* C12: the quit flag starts false and is never reset; on_quit sets it and
\* leaves the project not running; once a window close was requested every
\* on_frame call returns true, whatever start and stop events came between.
C12_QuitMonotone ==
    [][/\ g_should_quit => g_should_quit'
       /\ (log = << >>) => ~g_should_quit
       /\ StepIs("on_quit") => (g_should_quit' /\ ~g_project_running')
       /\ QuitRequested(log) => g_should_quit
       /\ (StepIs("on_frame") /\ QuitRequested(log)) =>
             (FrameReturn = TRUE /\ pc' = "cleanup")]_vars

\* after a window close, a start and a stop were delivered and the frame
\* that followed returned true
C12_Witness ==
    /\ \E q \in Indices(log, "on_quit") :
          /\ \E a \in Indices(log, "on_start") : a > q
          /\ \E b \in Indices(log, "on_stop") : b > q
    /\ log[Len(log)].call = "on_frame returned"
    /\ log[Len(log)].flag = TRUE
\* main has returned EXIT_SUCCESS with the project unloaded, the instance
\* destroyed and the platform shut down
Terminated ==
    /\ pc = "exit" /\ exit_code = EXIT_SUCCESS
    /\ ~g_project_running /\ Balance(log, Len(log)) = 0
    /\ g_godot_instance = NULL
    /\ Count(log, "libgodot_destroy_godot_instance") = 1
    /\ g_platform = NULL
    /\ Count(log, "platform_shutdown") = 1

\* C13: if the event loop keeps calling on_frame and platform_run returns
\* once on_frame returns true, then after a window close request the harness
\* eventually terminates with EXIT_SUCCESS, the project unloaded, the
\* instance destroyed and the platform shut down.
C13_ShutdownLiveness == QuitRequested(log) ~> Terminated

\* a run in which a window close was requested has terminated
C13_Witness ==
    /\ QuitRequested(log)
    /\ Terminated
    /\ \E q \in Indices(log, "on_quit") : log[q + 1].call = "cout"
\* the globals of a state record, without the log
Flags(s) == <<s.g_godot_instance, s.g_should_quit, s.g_platform,
              s.g_project_path, s.g_project_running>>
\* the step leaves the running flag, quit flag, instance and path alone
\* and calls neither the engine nor platform_set_run_state
NoOpStep ==
    /\ ~AnyEngineCall(Suffix)
    /\ ~Called(Suffix, "platform_set_run_state")
    /\ g_project_running' = g_project_running
    /\ g_should_quit' = g_should_quit
    /\ g_godot_instance' = g_godot_instance
    /\ g_project_path' = g_project_path
EngineCallCount(lg) == Cardinality({i \in 1..Len(lg) : lg[i].call \in EngineCalls})

\* C14: a start request while the project runs and a stop request while
\* none runs make no engine call and no platform_set_run_state call and
\* leave running flag, quit flag, instance and path unchanged; hence a
\* second stop_project changes nothing, and a second start_project with the
\* same load outcome leaves the globals as the first left them and makes no
\* engine call once the first has loaded the project.
C14_RedundantRequests ==
    [][/\ (StepIs("on_start") /\ g_project_running) => NoOpStep
       /\ (StepIs("on_stop") /\ ~g_project_running) => (NoOpStep /\ Len(Suffix) = 1)
       /\ pc = "loop" =>
             /\ \A r \in {NULL, "Stopped by user"} :
                   stop_project(stop_project(Globals, r), r) = stop_project(Globals, r)
             /\ \A ok \in BOOLEAN :
                   LET a == start_project(Globals, ok)
                       b == start_project(a, ok)
                   IN  /\ Flags(b) = Flags(a)
                       /\ ok => /\ EngineCallCount(b.log) = EngineCallCount(a.log)
                                /\ Count(b.log, "platform_set_run_state")
                                     = Count(a.log, "platform_set_run_state")]_vars

\* a start was delivered while the project ran and a stop while none ran
C14_Witness ==
    /\ \E i \in Indices(log, "on_start") :
          /\ i < Len(log)
          /\ log[i + 1].text = <<"Project already running">>
    /\ \E i \in Indices(log, "on_stop") :
          /\ i < Len(log)
          /\ log[i + 1].call \in Markers
\* the first run state the platform was told
FirstRunState(lg) ==
    LET I == Indices(lg, "platform_set_run_state")
    IN  lg[CHOOSE i \in I : \A j \in I : i <= j]

\* C15: from the initial "Project ready" update until platform shutdown,
\* after every completed operation the running value last passed to
\* platform_set_run_state equals the running flag; the platform is told
\* running=false ("Loading project...") right before each load and
\* running=true only right after a load that returned success.
C15_RunStateMirrored ==
    /\ pc \in {"loop", "cleanup"} => Called(log, "platform_set_run_state")
    /\ Called(log, "platform_set_run_state") =>
          /\ LastRunState(log).flag = g_project_running
          /\ FirstRunState(log).flag = FALSE
          /\ FirstRunState(log).text = <<"Project ready: ", g_project_path>>
    /\ \A l \in Indices(log, "libgodot_load_project") :
          /\ log[l - 1].call = "platform_set_run_state"
          /\ log[l - 1].flag = FALSE
          /\ log[l - 1].text = <<"Loading project...">>
    /\ \A i \in Indices(log, "platform_set_run_state") :
          /\ log[i].handle = PlatformCtx
          /\ log[i].text /= NullText
          /\ log[i].flag =>
                /\ log[i - 1].call = "libgodot_load_project"
                /\ log[i - 1].flag = TRUE

\* the platform was told running=true, later running=false, and the loop
\* is still running
C15_Witness ==
    /\ pc = "loop"
    /\ \E i \in Indices(log, "platform_set_run_state") :
          /\ log[i].flag = TRUE
          /\ \E j \in Indices(log, "platform_set_run_state") :
                j > i /\ log[j].text = <<"Failed to load project">>
\* C16: platform_init succeeds before any engine call; the display-server
\* interface is obtained from the platform and registered before the
\* instance is created; the instance is created and handed to the platform
\* before the first load; the auto-start load is attempted before
\* platform_run delivers any callback.
C16_StartupOrder ==
    /\ \A i \in 1..Len(log) : log[i].call \in EngineCalls =>
          \E p \in Indices(log, "platform_init") : p < i /\ log[p].flag = TRUE
    /\ \A c \in Indices(log, "libgodot_create_godot_instance") :
          \E a \in Indices(log, "platform_get_display_server_interface") :
             \E b \in Indices(log, "libgodot_display_server_set_interface") :
                a < b /\ b < c /\ log[a].handle = PlatformCtx
    /\ \A l \in Indices(log, "libgodot_load_project") :
          \E c \in Indices(log, "libgodot_create_godot_instance") :
             \E h \in Indices(log, "platform_set_godot_instance") :
                /\ c < h /\ h < l
                /\ log[c].handle = GodotInstance
                /\ log[h].handle = GodotInstance
    /\ \A r \in Indices(log, "platform_run") :
          /\ \E l \in Indices(log, "libgodot_load_project") : l < r
          /\ \A m \in MarkerIndices(log) : r < m
    /\ MarkerIndices(log) /= {} => Called(log, "platform_run")

\* the event loop has delivered a callback after the start-up sequence
C16_Witness ==
    /\ MarkerIndices(log) /= {}
    /\ Called(log, "libgodot_load_project")
    /\ Called(log, "platform_set_godot_instance")
\* the callback delivered last was a user stop that unloaded the project
AfterUserStop(lg) ==
    /\ LastMarker(lg) /= 0
    /\ lg[LastMarker(lg)].call = "on_stop"
    /\ Called(LastCallback(lg), "libgodot_unload_project")

\* C17: the project path is set once, from the command line, before the
\* engine is created; no callback changes it; every load is passed that
\* same non-empty path, so a user start after a user stop reloads the same
\* project.
C17_PathFixed ==
    [][/\ g_project_path' /= g_project_path =>
             /\ pc = "platform_init"
             /\ g_project_path = ""
             /\ ~AnyEngineCall(log')
       /\ (\E m \in Markers : StepIs(m)) => g_project_path' = g_project_path
       /\ Called(log', "libgodot_create_godot_instance") =>
             /\ g_project_path' = resolve_project_path(main_argc, argv)
             /\ g_project_path' /= ""
       /\ \A l \in Indices(log', "libgodot_load_project") :
             /\ log'[l].text = <<resolve_project_path(main_argc, argv)>>
             /\ log'[l].text = <<g_project_path'>>
             /\ log'[l].text /= <<"">>
       /\ (StepIs("on_start") /\ AfterUserStop(log)) =>
             /\ Count(Suffix, "libgodot_load_project") = 1
             /\ \A l \in Indices(Suffix, "libgodot_load_project") :
                   \A k \in Indices(log, "libgodot_load_project") :
                      Suffix[l].text = log[k].text]_vars

\* a user stop has unloaded the project and the user start after it has
\* loaded it again
C17_Witness ==
    /\ LastMarker(log) /= 0
    /\ log[LastMarker(log)].call = "on_start"
    /\ AfterUserStop(SubSeq(log, 1, LastMarker(log) - 1))
    /\ g_project_running
    /\ Count(log, "libgodot_load_project") >= 2
\* the flags of av that have an argument after them
FlagsWithValue(av) == {i \in 1..(Len(av) - 1) : IsFlag(av[i])}
\* the path C18 describes
ExpectedPath(av) ==
    IF FlagsWithValue(av) /= {}
    THEN av[(CHOOSE i \in FlagsWithValue(av) : \A j \in FlagsWithValue(av) : i <= j) + 1]
    ELSE IF Len(av) >= 1 /\ ~IsFlag(av[1]) THEN av[1]
    ELSE ""

\* C18: resolve_project_path returns the argument after the first --path
\* or --main-pack flag that has a following argument, before any leading
\* positional argument; otherwise the first argument when it is no flag;
\* otherwise the empty string; it reads no index past the argument list.
C18_PathResolution ==
    /\ resolve_project_path(main_argc, argv) = ExpectedPath(argv)
    /\ pc = "platform_init" => ExpectedPath(argv) /= ""
    /\ pc = "create_instance" => g_project_path = ExpectedPath(argv)
    /\ (pc = "exit" /\ ~Called(log, "platform_init")) => ExpectedPath(argv) = ""
    /\ \A i \in resolve_reads(main_argc, argv) : i >= 1 /\ i < main_argc

\* a flag's value was taken although a positional argument leads
C18_Witness ==
    /\ pc = "create_instance"
    /\ Len(argv) = 3
    /\ ~IsFlag(argv[1]) /\ argv[1] /= ""
    /\ IsFlag(argv[2])
    /\ argv[3] /= argv[1]
    /\ g_project_path = argv[3]
====
